---- MODULE Spec2Model ----
(***************************************************************************)
(* SmartGeocoder (backup/src/geocoding/smart_geocoder.py): multi-provider  *)
(* geocoding with a persistent result cache, bounds / ML / confidence      *)
(* validation, weighted validation scoring and retry over address          *)
(* variations.                                                             *)
(*                                                                         *)
(* Conventions.  Strings are sequences of tokens (a token is a word or a   *)
(* comma separated part), so that lower(), join() and concatenation are    *)
(* computed.  Coordinates are integers in units of 1e-7 degree, scores and *)
(* confidences are integer hundredths, times are whole days.  Python None  *)
(* for an optional number is the empty tuple, a present number x is <<x>>. *)
(*                                                                         *)
(* Specifications.  Spec: geocode calls, time and restarts.  SpecCache:    *)
(* the cache methods called directly, with the process ending at any       *)
(* point.  SpecRate: the adapters' rate limiting on the wall clock (tenths *)
(* of a second).  SpecValidate, SpecUnits: single methods on their inputs. *)
(* SpecLive: Spec with a running call scheduled fairly.  SpecRace: two     *)
(* threads in the adapters of one instance.  SpecAlias: the caller's hold  *)
(* on a returned result.  SpecShared: two instances on one cache file.     *)
(***************************************************************************)
EXTENDS Integers, Sequences, FiniteSets, TLC

\* ------------------------------------------------------------------ bounds
MaxCalls == 2
MaxTime == 31

\* --------------------------------------------------------- program values
None == <<>>
Some(x) == <<x>>
Val(o) == o[1]

INDIA_BOUNDS ==
  [min_lat |-> 65546079, max_lat |-> 356745457,
   min_lon |-> 681113787, max_lon |-> 973955610]

CACHE_TTL_DAYS == 30
GOOGLE_FLOOR == 60
NOMINATIM_FLOOR == 70
\* self.google_delay = 0.1 and self.nominatim_delay = 1.0, in tenths of a second
GOOGLE_DELAY == 1
NOMINATIM_DELAY == 10

\* the weights of _calculate_validation_score, in hundredths
weightsHeavy ==
  [district_match |-> 30, state_match |-> 20, pin_match |-> 15,
   education_keywords |-> 25, bounds_check |-> 20]
weights ==
  [district_match |-> 30, state_match |-> 20, pin_match |-> 15,
   education_keywords |-> 15, bounds_check |-> 20]

keywords ==
  {"university", "college", "institute", "school", "campus",
   "vishwavidyalaya", "mahavidyalaya", "vidyalaya", "shikshan",
   "polytechnic", "academy", "education"}

Min(a, b) == IF a < b THEN a ELSE b

\* str.lower() on one token
LowerTok(t) ==
  CASE t = "IIT" -> "iit"
    [] t = "Delhi" -> "delhi"
    [] t = "South Delhi" -> "south delhi"
    [] t = "SOUTH DELHI" -> "south delhi"
    [] t = "Institute" -> "institute"
    [] t = "Hauz Khas" -> "hauz khas"
    [] t = "Pune" -> "pune"
    [] t = "Near Metro" -> "near metro"
    [] OTHER -> t

\* str.lower() on a string
Lower(s) == [i \in DOMAIN s |-> LowerTok(s[i])]

\* ', '.join(parts) and f"{address}, {state}"
Join(parts) == parts
AppendPart(address, part) == Append(address, part)

\* _get_cache_key: md5 of the lower-cased address; the digest is identified
\* with its preimage (md5 taken as injective on the addresses of the model)
GetCacheKeyUnfolded(address) == address
GetCacheKey(address) == Lower(address)

\* _is_within_india_bounds
IsWithinIndiaBoundsLatOnly(lat, lon) ==
  /\ INDIA_BOUNDS.min_lat <= lat /\ lat <= INDIA_BOUNDS.max_lat
IsWithinIndiaBounds(lat, lon) ==
  /\ INDIA_BOUNDS.min_lat <= lat /\ lat <= INDIA_BOUNDS.max_lat
  /\ INDIA_BOUNDS.min_lon <= lon /\ lon <= INDIA_BOUNDS.max_lon

\* ------------------------------------------------------ payloads, results
Range(f) == {f[i] : i \in DOMAIN f}

\* address_components of a result: Google gives a list of component dicts,
\* Nominatim gives raw['address'], a mapping from field name to string
ListComponents(items) == [shape |-> "list", items |-> items]
DictComponents(ks) == [shape |-> "dict", keys |-> ks]

\* `for component in result.get('address_components', [])` followed by
\* component.get(...): iterating a mapping yields its keys (str), and
\* str has no .get, so the loop body raises AttributeError on the first key
IterRaises(result) ==
  /\ result.address_components.shape = "dict"
  /\ result.address_components.keys # {}

Items(result) ==
  IF result.address_components.shape = "list"
  THEN result.address_components.items ELSE <<>>

\* truthiness of an optional string
Truthy(o) == o # None /\ Val(o) # ""

\* the loop shared by _extract_district / _extract_state / _extract_pin:
\* long_name of the first component whose types contain `type`, else None
ExtractByType(result, type) ==
  LET idx == {i \in DOMAIN Items(result) : type \in Range(Items(result)[i].types)}
  IN IF idx = {} THEN None
     ELSE Some(Items(result)[CHOOSE i \in idx : \A j \in idx : i <= j].long_name)

ExtractDistrict(result) == ExtractByType(result, "administrative_area_level_2")
ExtractState(result) == ExtractByType(result, "administrative_area_level_1")
ExtractPin(result) == ExtractByType(result, "postal_code")

\* `any(keyword in address for keyword in keywords)` on the lower-cased
\* formatted address
AddressHasKeyword(result) ==
  \E i \in DOMAIN result.formatted_address :
    LowerTok(result.formatted_address[i]) \in keywords

\* _has_education_keywords without the loop over the components, and the
\* loop; adapter results carry no 'types' key, so the place-type test on
\* result.get('types', []) is False
ComponentHasKeyword(result) ==
  \E i \in DOMAIN Items(result) : LowerTok(Items(result)[i].long_name) \in keywords
HasEducationKeywords(result) ==
  AddressHasKeyword(result) \/ ComponentHasKeyword(result)
HasEducationKeywordsRaises(result) ==
  ~AddressHasKeyword(result) /\ IterRaises(result)

\* the three metadata terms of _calculate_validation_score
DistrictTermPartial(result, md) ==
  IF "district" \in DOMAIN md.components /\ Truthy(ExtractDistrict(result))
  THEN weights.district_match ELSE 0
DistrictTerm(result, md) ==
  IF /\ "district" \in DOMAIN md.components
     /\ Truthy(ExtractDistrict(result))
     /\ LowerTok(Val(ExtractDistrict(result))) = LowerTok(md.components.district)
  THEN weights.district_match ELSE 0
StateTerm(result, md) ==
  IF /\ "state" \in DOMAIN md.components
     /\ Truthy(ExtractState(result))
     /\ LowerTok(Val(ExtractState(result))) = LowerTok(md.components.state)
  THEN weights.state_match ELSE 0
PinTerm(result, md) ==
  IF /\ "pin" \in DOMAIN md.components
     /\ Truthy(ExtractPin(result))
     /\ Val(ExtractPin(result)) = md.components.pin
  THEN weights.pin_match ELSE 0
KeywordTerm(result) ==
  IF HasEducationKeywords(result) THEN weights.education_keywords ELSE 0
BoundsTermZero(result) == 0
BoundsTerm(result) ==
  IF IsWithinIndiaBounds(Val(result.latitude), Val(result.longitude))
  THEN weights.bounds_check ELSE 0

\* _calculate_validation_score raises (AttributeError) when one of its loops
\* over the components runs on a non-empty mapping
ScoreRaises(result, md) ==
  \/ /\ IterRaises(result)
     /\ {"district", "state", "pin"} \cap DOMAIN md.components # {}
  \/ HasEducationKeywordsRaises(result)

\* _calculate_validation_score, for a result on which it does not raise
CalculateValidationScore(result, md) ==
  DistrictTerm(result, md) + StateTerm(result, md) + PinTerm(result, md)
    + KeywordTerm(result) + BoundsTerm(result)

\* _calculate_google_confidence on the raw result[0]
HasExactType(raw, type) ==
  \E i \in DOMAIN raw.address_components :
    raw.address_components[i].types = <<type>>
CalculateGoogleConfidenceLowBase(raw) ==
  Min(100,
      50 + (CASE raw.location_type = "ROOFTOP" -> 20
              [] raw.location_type = "RANGE_INTERPOLATED" -> 10
              [] OTHER -> 0)
         + (IF HasExactType(raw, "postal_code") THEN 10 ELSE 0)
         + (IF HasExactType(raw, "administrative_area_level_2") THEN 10 ELSE 0))
CalculateGoogleConfidence(raw) ==
  Min(100,
      70 + (CASE raw.location_type = "ROOFTOP" -> 20
              [] raw.location_type = "RANGE_INTERPOLATED" -> 10
              [] OTHER -> 0)
         + (IF HasExactType(raw, "postal_code") THEN 10 ELSE 0)
         + (IF HasExactType(raw, "administrative_area_level_2") THEN 10 ELSE 0))

\* _calculate_nominatim_confidence on the geopy Location
CalculateNominatimConfidence(raw) ==
  Min(100,
      60 + (IF "postcode" \in raw.address THEN 10 ELSE 0)
         + (IF "state" \in raw.address THEN 10 ELSE 0)
         + (IF "city" \in raw.address \/ "town" \in raw.address THEN 10 ELSE 0)
         + (IF raw.amenity THEN 10 ELSE 0))

\* absent candidate (Python None)
Absent == [kind |-> "None"]

\* _geocode_google: apiKey is self.google_api_key; resp is what
\* self.google_maps.geocode does: raise, [] or a list whose first element is
\* read ('malformed': result[0] lacks 'geometry', a KeyError caught inside)
GeocodeGoogle(apiKey, resp) ==
  IF ~apiKey THEN Absent
  ELSE IF resp.kind \in {"raise", "empty", "malformed"} THEN Absent
  ELSE [kind |-> "dict",
        latitude |-> Some(resp.lat),
        longitude |-> Some(resp.lng),
        confidence |-> CalculateGoogleConfidence(resp),
        source |-> "google",
        address_components |-> ListComponents(resp.address_components),
        formatted_address |-> resp.formatted_address]

\* _geocode_nominatim: resp is what self.nominatim.geocode does: raise
\* (timeout, unavailable), None, or a Location ('malformed': one whose raw
\* lacks what the body reads, an exception caught inside)
GeocodeNominatimUnguarded(resp) ==
  IF resp.kind \in {"raise", "malformed"} THEN [kind |-> "raise"]
  ELSE IF resp.kind = "empty" THEN Absent
  ELSE [kind |-> "dict",
        latitude |-> Some(resp.lat),
        longitude |-> Some(resp.lon),
        confidence |-> CalculateNominatimConfidence(resp),
        source |-> "nominatim",
        address_components |-> DictComponents(resp.address),
        formatted_address |-> resp.formatted_address]
GeocodeNominatim(resp) ==
  IF resp.kind \in {"raise", "empty", "malformed"} THEN Absent
  ELSE [kind |-> "dict",
        latitude |-> Some(resp.lat),
        longitude |-> Some(resp.lon),
        confidence |-> CalculateNominatimConfidence(resp),
        source |-> "nominatim",
        address_components |-> DictComponents(resp.address),
        formatted_address |-> resp.formatted_address]

\* MLGeocodeValidator.validate: classifier is "none" (no model file),
\* "unfitted" (model file failed to load) or "trained"; verdict is what the
\* trained classifier says (probability of the valid class >= 0.5)
MLValidate(classifier, result, md, verdict) ==
  IF classifier = "none" THEN TRUE
  ELSE IF IterRaises(result) \/ classifier = "unfitted" THEN TRUE
  ELSE verdict

\* the confidence floor of _validate_result
FloorOfUniform(source) == NOMINATIM_FLOOR
FloorOf(source) == IF source = "google" THEN GOOGLE_FLOOR ELSE NOMINATIM_FLOOR

\* _validate_result: "True", "False", or "raise" (KeyError on result['source'])
ValidateResult(classifier, result, md, verdict) ==
  IF result = Absent THEN "False"
  ELSE IF result.latitude = None \/ result.longitude = None THEN "False"
  ELSE IF ~IsWithinIndiaBounds(Val(result.latitude), Val(result.longitude)) THEN "False"
  ELSE IF ~MLValidate(classifier, result, md, verdict) THEN "False"
  ELSE IF "source" \notin DOMAIN result THEN "raise"
  ELSE IF result.confidence < FloorOf(result.source) THEN "False"
  ELSE "True"

\* ------------------------------------------ address processing, variations
\* the words the address processor recognises, lower-cased
StateNames == {"delhi"}
DistrictNames == {"south delhi"}
PinCodes == {"110016"}
LandmarkWords == {"near metro"}

ComponentClass(k) ==
  CASE k = "district" -> DistrictNames
    [] k = "state" -> StateNames
    [] k = "pin" -> PinCodes
    [] k = "landmarks" -> LandmarkWords

\* AddressProcessor.process_address: collapses whitespace ("" stands for a
\* run of extra blanks) and returns the cleaned address with the metadata,
\* whose components hold the first part of the address of each class
Normalize(address) == SelectSeq(address, LAMBDA t : t # "")
FirstOfClass(address, k) ==
  address[CHOOSE i \in DOMAIN address :
            /\ LowerTok(address[i]) \in ComponentClass(k)
            /\ \A j \in DOMAIN address :
                 LowerTok(address[j]) \in ComponentClass(k) => i <= j]
ComponentsOf(address) ==
  [k \in {c \in {"district", "state", "pin", "landmarks"} :
            \E i \in DOMAIN address : LowerTok(address[i]) \in ComponentClass(c)}
     |-> FirstOfClass(address, k)]
ProcessAddress(address) ==
  [address |-> Normalize(address),
   metadata |-> [components |-> ComponentsOf(Normalize(address))]]

\* district_centroids.csv as written by the test fixture
DistrictTable ==
  [d \in {"South Delhi", "Chennai", "Mumbai"} |->
     CASE d = "South Delhi" -> "Delhi"
       [] d = "Chennai" -> "Tamil Nadu"
       [] d = "Mumbai" -> "Maharashtra"]

Has(components, k) == k \in DOMAIN components /\ components[k] # ""

\* _generate_address_variations: districtData is "loaded" or "missing" (the
\* empty DataFrame of _load_district_data, on which ['district'] is a KeyError)
LandmarkParts(components) ==
  (IF Has(components, "district") THEN <<components.district>> ELSE <<>>)
    \o (IF Has(components, "state") THEN <<components.state>> ELSE <<>>)
    \o (IF Has(components, "pin") THEN <<components.pin>> ELSE <<>>)
LandmarkVariations(components) ==
  IF Has(components, "landmarks") THEN <<Join(LandmarkParts(components))>> ELSE <<>>
NeedsState(components) == ~Has(components, "state") /\ Has(components, "district")
StateVariations(address, components) ==
  IF NeedsState(components) /\ components.district \in DOMAIN DistrictTable
  THEN <<AppendPart(address, DistrictTable[components.district])>> ELSE <<>>
VariationsRaise(md, districtData) ==
  NeedsState(md.components) /\ districtData = "missing"
GenerateAddressVariations(address, md) ==
  LandmarkVariations(md.components) \o StateVariations(address, md.components)

\* ------------------------------------------------------------------- cache
EmptyCache == <<>>

\* _get_cached_result at time t
GetCachedResultInclusive(c, address, t) ==
  IF /\ GetCacheKey(address) \in DOMAIN c
     /\ t - c[GetCacheKey(address)].timestamp <= CACHE_TTL_DAYS
  THEN c[GetCacheKey(address)] ELSE Absent
GetCachedResultNever(c, address, t) == Absent
GetCachedResult(c, address, t) ==
  IF /\ GetCacheKey(address) \in DOMAIN c
     /\ t - c[GetCacheKey(address)].timestamp < CACHE_TTL_DAYS
  THEN c[GetCacheKey(address)] ELSE Absent

\* result['timestamp'] = datetime.now().isoformat()
Stamp(result, t) == [timestamp |-> t] @@ result

\* self.cache[key] = result
CachePutFresh(c, address, entry) == [k \in {GetCacheKey(address)} |-> entry]
CachePut(c, address, entry) ==
  [k \in DOMAIN c \cup {GetCacheKey(address)} |->
     IF k = GetCacheKey(address) THEN entry ELSE c[k]]

\* save_cache: open(..., 'w') truncates, json.dump writes the whole store; an
\* exception is logged and swallowed.  outcome: "ok", "open_fails" (file
\* untouched) or "dump_fails" (file truncated, partly written)
MissingFile == [state |-> "missing"]
CorruptFile == [state |-> "corrupt"]
SaveCache(d, c, outcome) ==
  CASE outcome = "ok" -> [state |-> "ok", data |-> c]
    [] outcome = "open_fails" -> d
    [] OTHER -> CorruptFile

\* load_cache
LoadCache(d) == IF d.state = "ok" THEN d.data ELSE EmptyCache

\* the terminal failure value of geocode
FailureResultNoError ==
  [kind |-> "dict", latitude |-> None, longitude |-> None, confidence |-> 0,
   source |-> "none", address_components |-> DictComponents({}),
   validation_score |-> 0]
FailureResult ==
  [kind |-> "dict", latitude |-> None, longitude |-> None, confidence |-> 0,
   source |-> "none", address_components |-> DictComponents({}),
   validation_score |-> 0, error |-> "Geocoding failed for all attempts"]

\* ------------------------------------------------------------------ inputs
Addresses ==
  {<<"IIT", "", "Near Metro", "South Delhi", "Delhi", "110016">>,
   <<"iit", "", "near metro", "south delhi", "delhi", "110016">>,
   <<"Institute", "Near Metro", "South Delhi">>,
   <<"Pune">>}

NoComponents == <<>>

Delhi == [lat |-> 285449756, lon |-> 771926225]
NewYork == [lat |-> 407128000, lon |-> -740060000]

FullComponents ==
  <<[long_name |-> "SOUTH DELHI", types |-> <<"administrative_area_level_2">>],
    [long_name |-> "Delhi", types |-> <<"administrative_area_level_1">>],
    [long_name |-> "110016", types |-> <<"postal_code">>]>>

GoogleResponses ==
  {[kind |-> "raise"], [kind |-> "empty"],
   [kind |-> "ok", lat |-> Delhi.lat, lng |-> Delhi.lon, location_type |-> "ROOFTOP",
    address_components |-> FullComponents,
    formatted_address |-> <<"Institute", "Delhi">>],
   [kind |-> "ok", lat |-> NewYork.lat, lng |-> NewYork.lon, location_type |-> "ROOFTOP",
    address_components |-> FullComponents,
    formatted_address |-> <<"Institute", "Delhi">>],
   [kind |-> "ok", lat |-> INDIA_BOUNDS.min_lat, lng |-> INDIA_BOUNDS.min_lon,
    location_type |-> "APPROXIMATE", address_components |-> <<>>,
    formatted_address |-> <<"Hauz Khas">>],
   [kind |-> "ok", lat |-> INDIA_BOUNDS.max_lat + 1, lng |-> INDIA_BOUNDS.max_lon,
    location_type |-> "APPROXIMATE", address_components |-> <<>>,
    formatted_address |-> <<"Hauz Khas">>]}

NominatimResponses ==
  {[kind |-> "raise"], [kind |-> "empty"],
   [kind |-> "ok", lat |-> Delhi.lat, lon |-> Delhi.lon,
    address |-> {"postcode", "state", "city"}, amenity |-> FALSE,
    formatted_address |-> <<"Hauz Khas">>],
   [kind |-> "ok", lat |-> INDIA_BOUNDS.max_lat, lon |-> INDIA_BOUNDS.max_lon,
    address |-> {}, amenity |-> TRUE, formatted_address |-> <<"Institute">>],
   [kind |-> "ok", lat |-> Delhi.lat, lon |-> Delhi.lon,
    address |-> {}, amenity |-> FALSE, formatted_address |-> <<"Hauz Khas">>],
   [kind |-> "ok", lat |-> INDIA_BOUNDS.min_lat, lon |-> INDIA_BOUNDS.min_lon - 1,
    address |-> {}, amenity |-> TRUE, formatted_address |-> <<"Institute">>]}

\* retry_count as callers pass it: none, one, or the default of geocode
DEFAULT_RETRY_COUNT == 3
RetryCounts == {0, 1, DEFAULT_RETRY_COUNT}

SaveOutcomes == {"ok", "open_fails", "dump_fails"}
TickDays == {30, 31}

\* ------------------------------------------------------------------- state
VARIABLES
  apiKey,        \* self.google_api_key is set
  classifier,    \* ml_validator.classifier: "none", "unfitted", "trained"
  districtData,  \* self.district_data: "loaded" or "missing"
  cache,         \* self.cache: key -> stored result
  disk,          \* geocoding_cache.json
  now,           \* the clock, in days
  stack,         \* activation records of geocode, innermost last
  ret,           \* outcome of the last top-level geocode call
  snap,          \* cache and disk when the running top-level call began
  called,        \* collaborators called by the running top-level call
  ncalls,        \* top-level calls made so far
  probe,         \* a direct call of one method: its input and what it gave
  clock,         \* time.time(), in tenths of a second
  last_google_call,     \* self.last_google_call
  last_nominatim_call,  \* self.last_nominatim_call
  requests,      \* per provider: when its last request was issued, and how
                 \* long after the one before
  workers        \* concurrent activity: per thread or per instance, where it
                 \* is in its method and what it holds locally

vars ==
  <<apiKey, classifier, districtData, cache, disk, now, stack, ret, snap, called, ncalls,
    probe, clock, last_google_call, last_nominatim_call, requests, workers>>

config == <<apiKey, classifier, districtData>>

\* the rate limiter: the wall clock inside a call is followed in SpecRate;
\* elsewhere the limiter stays as __init__ leaves it
limiter == <<clock, last_google_call, last_nominatim_call, requests>>
NoRequests == [google |-> <<>>, nominatim |-> <<>>]
\* one thread, one instance: nothing runs beside the call being followed
NoWorkers == <<>>
InitLimiter ==
  /\ clock = 10 * NOMINATIM_DELAY
  /\ last_google_call = 0
  /\ last_nominatim_call = 0
  /\ requests = NoRequests

\* the installations considered: with and without a Google key, with and
\* without a trained model, with and without district_centroids.csv
Configurations ==
  {<<TRUE, "none", "loaded">>, <<TRUE, "trained", "missing">>,
   <<FALSE, "trained", "loaded">>}

NoRet == [kind |-> "none"]
NoProbe == [fn |-> "none"]
NoSnap == [kind |-> "none"]

Front(s) == SubSeq(s, 1, Len(s) - 1)
Top == stack[Len(stack)]
Running == stack # <<>>

Frame(address, retry_count) ==
  [address |-> address, retry_count |-> retry_count, pc |-> "cache",
   processed |-> <<>>, metadata |-> [components |-> NoComponents],
   variations |-> <<>>, vi |-> 0, tried |-> <<>>]

SetTop(f) == [stack EXCEPT ![Len(stack)] = f]

\* geocoding_cache.json before the first run
InitialFiles == {MissingFile}

Init ==
  /\ \E c \in Configurations :
       apiKey = c[1] /\ classifier = c[2] /\ districtData = c[3]
  /\ disk \in InitialFiles
  /\ cache = LoadCache(disk)
  /\ now = 0
  /\ stack = <<>>
  /\ ret = NoRet
  /\ snap = NoSnap
  /\ called = {}
  /\ ncalls = 0
  /\ probe = NoProbe
  /\ InitLimiter
  /\ workers = NoWorkers

\* `if result: return result` in the variation loop: a dict with keys is truthy
ResultTruthy(value) == value # Absent

\* a frame returns `value`: every caller is in the variation loop and tests
\* the value it gets; callers are the frames of `callers`, innermost last
RECURSIVE UnwindValue(_, _)
UnwindValue(callers, value) ==
  IF callers = <<>> THEN [stack |-> <<>>, done |-> TRUE]
  ELSE IF ResultTruthy(value) THEN UnwindValue(Front(callers), value)
  ELSE [stack |-> callers, done |-> FALSE]

\* what the top-level caller of geocode gets
\* (with, for the record, how far the outermost loop over the variations
\* got and what the providers did in the activation that produced the value)
Returned(value, attempt) ==
  [kind |-> "value", value |-> value, address |-> stack[1].address,
   tried |-> stack[1].vi, nvars |-> Len(stack[1].variations),
   attempt |-> attempt]
Raised == [kind |-> "raise", address |-> stack[1].address]

\* the running frame executes `return value`
Return(value, attempt) ==
  LET u == UnwindValue(Front(stack), value) IN
  /\ stack' = u.stack
  /\ ret' = IF u.done THEN Returned(value, attempt) ELSE ret
  /\ snap' = IF u.done THEN NoSnap ELSE snap

\* the running frame raises: the caller's `except Exception: continue`
\* resumes its loop; with no caller the exception leaves geocode
Raise ==
  /\ stack' = Front(stack)
  /\ ret' = IF Len(stack) = 1 THEN Raised ELSE ret
  /\ snap' = IF Len(stack) = 1 THEN NoSnap ELSE snap

\* ----------------------------------------------------------------- actions
\* geocode, line 126: Google is tried first when a key is configured
FirstStageNominatimOnly(key) == "nominatim"
FirstStage(key) == IF key THEN "google" ELSE "nominatim"

\* a caller invokes geocode(address, retry_count)
Call ==
  /\ ~Running
  /\ ncalls < MaxCalls
  /\ \E address \in Addresses, retry_count \in RetryCounts :
       stack' = <<Frame(address, retry_count)>>
  /\ ncalls' = ncalls + 1
  /\ called' = {}
  /\ ret' = NoRet
  /\ snap' = [kind |-> "snap", cache |-> cache, disk |-> disk]
  /\ UNCHANGED <<config, limiter, workers, probe, cache, disk, now>>

\* geocode, lines 117-120: the cache holds a live entry
CacheHit ==
  /\ Running
  /\ Top.pc = "cache"
  /\ GetCachedResult(cache, Top.address, now) # Absent
  /\ Return(GetCachedResult(cache, Top.address, now), <<>>)
  /\ UNCHANGED <<config, limiter, workers, probe, cache, disk, now, called, ncalls>>

\* geocode, lines 117-123: no live entry; the address is processed
CacheMiss ==
  /\ Running
  /\ Top.pc = "cache"
  /\ GetCachedResult(cache, Top.address, now) = Absent
  /\ LET p == ProcessAddress(Top.address) IN
       stack' = SetTop([Top EXCEPT !.processed = p.address, !.metadata = p.metadata,
                                   !.pc = FirstStage(apiKey)])
  /\ called' = called \cup {"process"}
  /\ UNCHANGED <<config, limiter, workers, probe, cache, disk, now, ret, snap, ncalls>>

\* a candidate is accepted: validated, scored without an exception
Accepted(candidate, md, verdict) ==
  /\ candidate # Absent
  /\ ValidateResult(classifier, candidate, md, verdict) = "True"
  /\ ~ScoreRaises(candidate, md)

\* what became of a candidate that was not accepted
Outcome(candidate, md, verdict) ==
  IF candidate = Absent THEN "absent"
  ELSE IF ValidateResult(classifier, candidate, md, verdict) # "True" THEN "rejected"
  ELSE "unscored"

\* _cache_result(address, result) at the current time
CacheResult(address, result, outcome) ==
  /\ cache' = CachePut(cache, address, Stamp(result, now))
  /\ disk' = SaveCache(disk, cache', outcome)

\* the body shared by the two provider blocks of geocode (lines 127-136 and
\* 139-148): validate, score, cache and return, or fall through to `next`
Attempt(provider, candidate, verdict, next) ==
  /\ called' = called \cup {provider}
                  \cup (IF candidate # Absent THEN {"validate"} ELSE {})
  /\ IF Accepted(candidate, Top.metadata, verdict)
     THEN LET scored == candidate @@
                [validation_score |-> CalculateValidationScore(candidate, Top.metadata)]
          IN /\ \E outcome \in SaveOutcomes : CacheResult(Top.address, scored, outcome)
             /\ Return(Stamp(scored, now),
                       Append(Top.tried, [provider |-> provider, outcome |-> "accepted"]))
     ELSE /\ stack' = SetTop([Top EXCEPT !.pc = next,
                 !.tried = Append(@, [provider |-> provider,
                                      outcome |-> Outcome(candidate, Top.metadata, verdict)])])
          /\ UNCHANGED <<cache, disk, ret, snap>>

\* what the trained classifier may answer; without one the answer is unused
Verdicts == IF classifier = "trained" THEN BOOLEAN ELSE {TRUE}

\* geocode, lines 126-136
GoogleAttempt ==
  /\ Running
  /\ Top.pc = "google"
  /\ \E resp \in GoogleResponses, verdict \in Verdicts :
       Attempt("google", GeocodeGoogle(apiKey, resp), verdict, "nominatim")
  /\ UNCHANGED <<config, limiter, workers, probe, now, ncalls>>

\* geocode, lines 138-148
NominatimAttempt ==
  /\ Running
  /\ Top.pc = "nominatim"
  /\ \E resp \in NominatimResponses, verdict \in Verdicts :
       Attempt("nominatim", GeocodeNominatim(resp), verdict, "retry")
  /\ UNCHANGED <<config, limiter, workers, probe, now, ncalls>>

\* geocode, lines 151-152: the variations are generated
RetryGenerate ==
  /\ Running
  /\ Top.pc = "retry"
  /\ Top.retry_count > 0
  /\ ~VariationsRaise(Top.metadata, districtData)
  /\ stack' = SetTop([Top EXCEPT
       !.variations = GenerateAddressVariations(Top.processed, Top.metadata),
       !.vi = 0, !.pc = "loop", !.tried = <<>>])
  /\ UNCHANGED <<config, limiter, workers, probe, cache, disk, now, ret, snap, called, ncalls>>

\* geocode, line 152: _generate_address_variations raises KeyError, outside
\* every try block of this activation
RetryRaise ==
  /\ Running
  /\ Top.pc = "retry"
  /\ Top.retry_count > 0
  /\ VariationsRaise(Top.metadata, districtData)
  /\ Raise
  /\ UNCHANGED <<config, limiter, workers, probe, cache, disk, now, called, ncalls>>

\* the loop calling geocode(variant, retry_count)
RecurseSameBudget ==
  /\ Running
  /\ Top.pc = "loop"
  /\ Top.vi < Len(Top.variations)
  /\ stack' = Append(SetTop([Top EXCEPT !.vi = @ + 1]),
                     Frame(Top.variations[Top.vi + 1], Top.retry_count))
  /\ UNCHANGED <<config, limiter, workers, probe, cache, disk, now, ret, snap, called, ncalls>>
\* geocode, lines 153-155: the loop calls geocode(variant, retry_count - 1)
Recurse ==
  /\ Running
  /\ Top.pc = "loop"
  /\ Top.vi < Len(Top.variations)
  /\ stack' = Append(SetTop([Top EXCEPT !.vi = @ + 1]),
                     Frame(Top.variations[Top.vi + 1], Top.retry_count - 1))
  /\ UNCHANGED <<config, limiter, workers, probe, cache, disk, now, ret, snap, called, ncalls>>

\* geocode, lines 161-169: no retry left, or the loop ran out of variations
FailCaching ==
  /\ Running
  /\ \/ Top.pc = "retry" /\ Top.retry_count = 0
     \/ Top.pc = "loop" /\ Top.vi = Len(Top.variations)
  /\ \E outcome \in SaveOutcomes : CacheResult(Top.address, FailureResult, outcome)
  /\ Return(FailureResult, <<>>)
  /\ UNCHANGED <<config, limiter, workers, probe, now, called, ncalls>>
Fail ==
  /\ Running
  /\ \/ Top.pc = "retry" /\ Top.retry_count = 0
     \/ Top.pc = "loop" /\ Top.vi = Len(Top.variations)
  /\ Return(FailureResult, <<>>)
  /\ UNCHANGED <<config, limiter, workers, probe, cache, disk, now, called, ncalls>>

\* time passes
Tick ==
  /\ ~Running
  /\ \E d \in TickDays : now + d <= MaxTime /\ now' = now + d
  /\ UNCHANGED <<config, limiter, workers, probe, cache, disk, stack, ret, snap, called, ncalls>>

\* the process ends and a new SmartGeocoder is constructed: load_cache
Restart ==
  /\ ~Running
  /\ cache' = LoadCache(disk)
  /\ cache' # cache
  /\ UNCHANGED <<config, limiter, workers, probe, disk, now, stack, ret, snap, called, ncalls>>

Next ==
  \/ Call \/ CacheHit \/ CacheMiss \/ GoogleAttempt \/ NominatimAttempt
  \/ RetryGenerate \/ RetryRaise \/ Recurse \/ Fail \/ Tick \/ Restart

Spec == Init /\ [][Next]_vars

\* a running geocode call executes its next statement: one thread, no
\* blocking statement other than the bounded sleeps of the adapters
GeocodeStep ==
  \/ CacheHit \/ CacheMiss \/ GoogleAttempt \/ NominatimAttempt
  \/ RetryGenerate \/ RetryRaise \/ Recurse \/ Fail

SpecLive == Spec /\ WF_vars(GeocodeStep)

\* --------------------------------------------- _validate_result on its own
ProbeCoordinates ==
  {Delhi, NewYork, [lat |-> INDIA_BOUNDS.min_lat, lon |-> INDIA_BOUNDS.max_lon]}
ProbeConfidences == {0, 59, 60, 61, 69, 70, 71, 80, 100}
ProbeSources == {"google", "nominatim", "here"}
ProbeCandidates ==
  {[kind |-> "dict", latitude |-> Some(c.lat), longitude |-> Some(c.lon),
    confidence |-> conf, source |-> src,
    address_components |-> ListComponents(<<>>),
    formatted_address |-> <<"Hauz Khas">>] :
     c \in ProbeCoordinates, conf \in ProbeConfidences, src \in ProbeSources}

InitValidate ==
  /\ apiKey = TRUE
  /\ classifier \in {"none", "unfitted", "trained"}
  /\ districtData = "loaded"
  /\ disk = MissingFile
  /\ cache = EmptyCache
  /\ now = 0
  /\ stack = <<>>
  /\ ret = NoRet
  /\ snap = NoSnap
  /\ called = {}
  /\ ncalls = 0
  /\ probe = NoProbe
  /\ InitLimiter
  /\ workers = NoWorkers

\* self._validate_result(candidate, metadata), as test_validation calls it
ValidateCall ==
  /\ \E candidate \in ProbeCandidates, verdict \in BOOLEAN :
       probe' = [fn |-> "_validate_result", candidate |-> candidate,
                 verdict |-> verdict,
                 out |-> ValidateResult(classifier, candidate,
                                        [components |-> NoComponents], verdict)]
  /\ UNCHANGED <<config, limiter, workers, cache, disk, now, stack, ret, snap, called, ncalls>>

\* test_validation: the two candidates the test passes, neither with a
\* 'source' key, and its metadata
TestCoordinates == {[lat |-> 286139000, lon |-> 772090000], NewYork}
TestCandidates ==
  {[kind |-> "dict", latitude |-> Some(c.lat), longitude |-> Some(c.lon),
    confidence |-> 80, address_components |-> ListComponents(<<>>)] :
     c \in TestCoordinates}
TestMetadata == [components |-> [district |-> "South Delhi", state |-> "Delhi"]]

\* self.geocoder._validate_result(valid_result, valid_metadata) of the test
TestValidationCall ==
  /\ \E candidate \in TestCandidates, verdict \in BOOLEAN :
       probe' = [fn |-> "test_validation", candidate |-> candidate,
                 verdict |-> verdict,
                 out |-> ValidateResult(classifier, candidate, TestMetadata, verdict)]
  /\ UNCHANGED <<config, limiter, workers, cache, disk, now, stack, ret, snap, called, ncalls>>

NextValidate == ValidateCall \/ TestValidationCall

SpecValidate == InitValidate /\ [][NextValidate]_vars

\* ---------------------------------------------------- the cache on its own
\* _cache_result, _get_cached_result, save_cache and load_cache called
\* directly, as test_cache_operations does, with the process ending at any
\* point
MaxPuts == 2
MaxCacheTime == 60

CacheTickDays == {29, 30}
CacheAddresses ==
  {<<"IIT", "Delhi">>, <<"iit", "delhi">>, <<"Pune">>}
CacheResults ==
  {[kind |-> "dict", latitude |-> Some(c.lat), longitude |-> Some(c.lon),
    confidence |-> 80, source |-> "google",
    address_components |-> DictComponents({}), validation_score |-> 90] :
     c \in {Delhi, [lat |-> INDIA_BOUNDS.max_lat, lon |-> INDIA_BOUNDS.max_lon]}}

\* a cache file that exists and cannot be opened for reading
UnreadableFile == [state |-> "unreadable"]
StartFiles == {MissingFile, CorruptFile, UnreadableFile}

\* the try body of load_cache: the store read, or the exception raised
LoadBody(d) ==
  CASE d.state = "missing" -> [kind |-> "value", cache |-> EmptyCache]
    [] d.state = "ok" -> [kind |-> "value", cache |-> d.data]
    [] d.state = "unreadable" -> [kind |-> "raise", exc |-> "PermissionError"]
    [] OTHER -> [kind |-> "raise", exc |-> "JSONDecodeError"]

\* `except Exception` of load_cache: what it catches
ExceptionClasses ==
  {"FileNotFoundError", "PermissionError", "JSONDecodeError", "UnicodeDecodeError"}
LoadCatchesFileNotFoundOnly(exc) == exc = "FileNotFoundError"
LoadCatches(exc) == exc \in ExceptionClasses

\* how a call of load_cache ends
LoadOutcome(d) ==
  IF LoadBody(d).kind = "raise" /\ ~LoadCatches(LoadBody(d).exc)
  THEN "raise" ELSE "returned"

\* the record of a load_cache call: the file it found, how it ended, and
\* whether the process before it ended at rest or inside save_cache
Loaded(d, during) ==
  [fn |-> "load_cache", file |-> d.state, out |-> LoadOutcome(d), during |-> during]

\* the puts made by this process, oldest first
NoPuts == [kind |-> "puts", log |-> <<>>]

InPut == probe.fn = "_cache_result" /\ probe.pc = "dumping"

InitCache ==
  /\ apiKey = TRUE
  /\ classifier = "none"
  /\ districtData = "loaded"
  /\ disk \in StartFiles
  /\ cache = LoadCache(disk)
  /\ now = 0
  /\ stack = <<>>
  /\ ret = NoRet
  /\ snap = NoPuts
  /\ called = {}
  /\ ncalls = 0
  /\ probe = Loaded(disk, "start")
  /\ InitLimiter
  /\ workers = NoWorkers

\* _cache_result up to the open of save_cache: the entry is stamped and
\* stored in memory; open(cache_file, 'w') truncates the file, or raises and
\* save_cache logs the error and returns
PutOpen ==
  /\ ~InPut
  /\ ncalls < MaxPuts
  /\ \E address \in CacheAddresses, result \in CacheResults, opens \in BOOLEAN :
       /\ cache' = CachePut(cache, address, Stamp(result, now))
       /\ disk' = IF opens THEN CorruptFile ELSE SaveCache(disk, cache', "open_fails")
       /\ probe' = [fn |-> "_cache_result", address |-> address,
                    pc |-> IF opens THEN "dumping" ELSE "returned",
                    saved |-> FALSE, before |-> LoadCache(disk)]
                    \* before: what a restart would have loaded before this put
       /\ snap' = [snap EXCEPT !.log =
                     Append(@, [address |-> address, result |-> result, t |-> now])]
  /\ ncalls' = ncalls + 1
  /\ UNCHANGED <<config, limiter, workers, now, stack, ret, called>>

\* the rest of save_cache: json.dump writes the whole store, or raises part
\* way and the error is logged; _cache_result returns either way
PutDump ==
  /\ InPut
  /\ \E outcome \in {"ok", "dump_fails"} :
       /\ disk' = SaveCache(disk, cache, outcome)
       /\ probe' = [probe EXCEPT !.pc = "returned", !.saved = (outcome = "ok")]
  /\ UNCHANGED <<config, limiter, workers, cache, now, stack, ret, snap, called, ncalls>>

\* _get_cached_result(address)
GetCall ==
  /\ ~InPut
  /\ \E address \in CacheAddresses :
       probe' = [fn |-> "_get_cached_result", address |-> address, t |-> now,
                 pc |-> "returned",
                 out |-> GetCachedResult(cache, address, now)]
  /\ UNCHANGED <<config, limiter, workers, cache, disk, now, stack, ret, snap, called, ncalls>>

\* time passes
TickCache ==
  /\ ~InPut
  /\ \E d \in CacheTickDays : now + d <= MaxCacheTime /\ now' = now + d
  /\ UNCHANGED <<config, limiter, workers, probe, cache, disk, stack, ret, snap, called, ncalls>>

\* the process ends, possibly in the middle of save_cache, and a new
\* SmartGeocoder is constructed on the same cache directory: load_cache
CrashRestart ==
  /\ probe.fn # "load_cache"
  /\ cache' = LoadCache(disk)
  /\ probe' = Loaded(disk, IF InPut THEN "put" ELSE "idle")
                @@ [before |-> IF InPut THEN probe.before ELSE LoadCache(disk)]
  /\ snap' = NoPuts
  /\ UNCHANGED <<config, limiter, workers, disk, now, stack, ret, called, ncalls>>

NextCache == PutOpen \/ PutDump \/ GetCall \/ TickCache \/ CrashRestart

SpecCache == InitCache /\ [][NextCache]_vars

\* ------------------------------------------------------- the rate limiter
\* _geocode_google and _geocode_nominatim called one after the other by one
\* thread, with the wall clock: each call sleeps the rest of its provider's
\* delay since self.last_*_call, issues its request, and stores time.time()
\* in self.last_*_call when the request has returned without an exception
MaxClock == 112
MaxRequests == 3

\* how long a request takes, and how long the caller waits between calls
Durations == {0, 2}
Pauses == {1, NOMINATIM_DELAY - 1}
RequestOutcomes == {"ok", "empty", "raise"}

\* time.sleep(delay - elapsed) when elapsed < delay
SleepFor(t, last, delay) == IF t - last < delay THEN delay - (t - last) ELSE 0

\* self.last_*_call after the request: line 183 / 213 is skipped when the
\* request raises
LastCallAfter(last, outcome, end) == IF outcome = "raise" THEN last ELSE end

\* the time a request is issued and the time since the request before it
Issue(prev, t) ==
  [at |-> t, gap |-> IF prev = <<>> THEN <<>> ELSE <<t - prev[1].at>>]

InitRate ==
  /\ apiKey = TRUE
  /\ classifier = "none"
  /\ districtData = "loaded"
  /\ disk = MissingFile
  /\ cache = EmptyCache
  /\ now = 0
  /\ stack = <<>>
  /\ ret = NoRet
  /\ snap = NoSnap
  /\ called = {}
  /\ ncalls = 0
  /\ probe = NoProbe
  /\ InitLimiter
  /\ workers = NoWorkers

\* _geocode_google(address), lines 171-199
GoogleRequest ==
  /\ apiKey
  /\ ncalls < MaxRequests
  /\ \E outcome \in RequestOutcomes, duration \in Durations :
       LET at == clock + SleepFor(clock, last_google_call, GOOGLE_DELAY) IN
       /\ at + duration <= MaxClock
       /\ clock' = at + duration
       /\ last_google_call' = LastCallAfter(last_google_call, outcome, at + duration)
       /\ requests' = [requests EXCEPT !.google = <<Issue(@, at)>>]
       /\ probe' = [fn |-> "_geocode_google", outcome |-> outcome]
  /\ ncalls' = ncalls + 1
  /\ UNCHANGED <<config, workers, last_nominatim_call, cache, disk, now, stack, ret, snap, called>>

\* _geocode_nominatim(address), lines 201-229
NominatimRequest ==
  /\ ncalls < MaxRequests
  /\ \E outcome \in RequestOutcomes, duration \in Durations :
       LET at == clock + SleepFor(clock, last_nominatim_call, NOMINATIM_DELAY) IN
       /\ at + duration <= MaxClock
       /\ clock' = at + duration
       /\ last_nominatim_call' =
            LastCallAfter(last_nominatim_call, outcome, at + duration)
       /\ requests' = [requests EXCEPT !.nominatim = <<Issue(@, at)>>]
       /\ probe' = [fn |-> "_geocode_nominatim", outcome |-> outcome]
  /\ ncalls' = ncalls + 1
  /\ UNCHANGED <<config, workers, last_google_call, cache, disk, now, stack, ret, snap, called>>

\* the caller does something else between two calls
Pause ==
  /\ \E d \in Pauses : clock + d <= MaxClock /\ clock' = clock + d
  /\ UNCHANGED <<config, workers, probe, last_google_call, last_nominatim_call, requests,
                 cache, disk, now, stack, ret, snap, called, ncalls>>

NextRate == GoogleRequest \/ NominatimRequest \/ Pause

SpecRate == InitRate /\ [][NextRate]_vars

\* ------------------------------------------------ methods called directly
\* the adapters, MLGeocodeValidator.validate, _calculate_validation_score
\* and one provider block of geocode, each applied to inputs of its own

\* provider answers, with one whose first element lacks the expected fields
UnitGoogleResponses == GoogleResponses \cup {[kind |-> "malformed"]}
UnitNominatimResponses == NominatimResponses \cup {[kind |-> "malformed"]}

\* candidates as the adapters build them
UnitCandidates ==
  {GeocodeGoogle(TRUE, r) : r \in {x \in GoogleResponses : x.kind = "ok"}}
    \cup {GeocodeNominatim(r) : r \in {x \in NominatimResponses : x.kind = "ok"}}

\* metadata as the address processor builds it, and one that matches nothing
UnitMetadata ==
  {ProcessAddress(a).metadata : a \in Addresses}
    \cup {[components |-> [district |-> "Pune", state |-> "Pune", pin |-> "411001"]]}

\* what classifier.predict_proba gives: an exception, or the probability of
\* the valid class in hundredths
Predictions ==
  {[kind |-> "raise"]} \cup {[kind |-> "proba", p |-> p] : p \in {0, 49, 50, 100}}

\* MLGeocodeValidator.validate: (is_valid, confidence), confidence in
\* hundredths; extract_features raises on a non-empty mapping of components
ValidateStrict(clf, result, md, prediction) ==
  IF clf = "none" THEN <<TRUE, 50>>
  ELSE IF IterRaises(result) \/ clf = "unfitted" \/ prediction.kind = "raise"
  THEN <<FALSE, 0>>
  ELSE <<prediction.p >= 50, prediction.p>>
Validate(clf, result, md, prediction) ==
  IF clf = "none" THEN <<TRUE, 50>>
  ELSE IF IterRaises(result) \/ clf = "unfitted" \/ prediction.kind = "raise"
  THEN <<TRUE, 50>>
  ELSE <<prediction.p >= 50, prediction.p>>

\* the checks one provider block of geocode (lines 127-131, 140-144) makes on
\* a candidate, in the order it makes them: _validate_result's bounds test,
\* its call of ml_validator.validate and its floor test, then
\* _calculate_validation_score
ChecksRunMLFirst(clf, candidate, md, verdict) ==
  IF candidate = Absent THEN <<>>
  ELSE IF candidate.latitude = None \/ candidate.longitude = None THEN <<>>
  ELSE IF ~MLValidate(clf, candidate, md, verdict) THEN <<"ml">>
  ELSE IF ~IsWithinIndiaBounds(Val(candidate.latitude), Val(candidate.longitude))
  THEN <<"ml", "bounds">>
  ELSE IF candidate.confidence < FloorOf(candidate.source)
  THEN <<"ml", "bounds", "floor">>
  ELSE <<"ml", "bounds", "floor", "score">>
ChecksRun(clf, candidate, md, verdict) ==
  IF candidate = Absent THEN <<>>
  ELSE IF candidate.latitude = None \/ candidate.longitude = None THEN <<>>
  ELSE IF ~IsWithinIndiaBounds(Val(candidate.latitude), Val(candidate.longitude))
  THEN <<"bounds">>
  ELSE IF ~MLValidate(clf, candidate, md, verdict) THEN <<"bounds", "ml">>
  ELSE IF candidate.confidence < FloorOf(candidate.source)
  THEN <<"bounds", "ml", "floor">>
  ELSE <<"bounds", "ml", "floor", "score">>

InitUnits ==
  /\ apiKey \in BOOLEAN
  /\ classifier \in {"none", "unfitted", "trained"}
  /\ districtData = "loaded"
  /\ disk = MissingFile
  /\ cache = EmptyCache
  /\ now = 0
  /\ stack = <<>>
  /\ ret = NoRet
  /\ snap = NoSnap
  /\ called = {}
  /\ ncalls = 0
  /\ probe = NoProbe
  /\ InitLimiter
  /\ workers = NoWorkers

\* self._geocode_google(address)
GoogleCall ==
  /\ \E resp \in UnitGoogleResponses :
       probe' = [fn |-> "_geocode_google", resp |-> resp,
                 out |-> GeocodeGoogle(apiKey, resp)]
  /\ UNCHANGED <<config, limiter, workers, cache, disk, now, stack, ret, snap, called, ncalls>>

\* self._geocode_nominatim(address)
NominatimCall ==
  /\ \E resp \in UnitNominatimResponses :
       probe' = [fn |-> "_geocode_nominatim", resp |-> resp,
                 out |-> GeocodeNominatim(resp)]
  /\ UNCHANGED <<config, limiter, workers, cache, disk, now, stack, ret, snap, called, ncalls>>

\* self.ml_validator.validate(candidate, metadata)
MLValidateCall ==
  /\ \E candidate \in UnitCandidates, md \in UnitMetadata, prediction \in Predictions :
       probe' = [fn |-> "validate", candidate |-> candidate, prediction |-> prediction,
                 out |-> Validate(classifier, candidate, md, prediction)]
  /\ UNCHANGED <<config, limiter, workers, cache, disk, now, stack, ret, snap, called, ncalls>>

\* payloads for the two confidence methods: Google results with components
\* of one type and, as the Geocoding API types a district, of two; Nominatim
\* raw dicts with every combination of the fields the method looks at
PoliticalComponents ==
  <<[long_name |-> "South Delhi",
     types |-> <<"administrative_area_level_2", "political">>],
    [long_name |-> "110016", types |-> <<"postal_code">>]>>
GooglePayloads ==
  {[location_type |-> lt, address_components |-> comps] :
     lt \in {"ROOFTOP", "RANGE_INTERPOLATED", "APPROXIMATE"},
     comps \in {<<>>, FullComponents, PoliticalComponents}}
NominatimPayloads ==
  {[address |-> a, amenity |-> am] :
     a \in SUBSET {"postcode", "state", "city", "town"}, am \in BOOLEAN}

\* self._calculate_google_confidence(result[0])
GoogleConfidenceCall ==
  /\ \E raw \in GooglePayloads :
       probe' = [fn |-> "_calculate_google_confidence", raw |-> raw,
                 out |-> CalculateGoogleConfidence(raw)]
  /\ UNCHANGED <<config, limiter, workers, cache, disk, now, stack, ret, snap, called, ncalls>>

\* self._calculate_nominatim_confidence(location)
NominatimConfidenceCall ==
  /\ \E raw \in NominatimPayloads :
       probe' = [fn |-> "_calculate_nominatim_confidence", raw |-> raw,
                 out |-> CalculateNominatimConfidence(raw)]
  /\ UNCHANGED <<config, limiter, workers, cache, disk, now, stack, ret, snap, called, ncalls>>

\* self._calculate_validation_score(candidate, metadata)
ScoreCall ==
  /\ \E candidate \in UnitCandidates, md \in UnitMetadata :
       probe' = [fn |-> "_calculate_validation_score", candidate |-> candidate,
                 metadata |-> md, raised |-> ScoreRaises(candidate, md),
                 out |-> IF ScoreRaises(candidate, md) THEN 0
                         ELSE CalculateValidationScore(candidate, md)]
  /\ UNCHANGED <<config, limiter, workers, cache, disk, now, stack, ret, snap, called, ncalls>>

\* one provider block of geocode on a candidate
ProviderBlockCall ==
  /\ \E candidate \in UnitCandidates, md \in UnitMetadata, verdict \in BOOLEAN :
       probe' = [fn |-> "provider_block", candidate |-> candidate, metadata |-> md,
                 verdict |-> verdict,
                 checks |-> ChecksRun(classifier, candidate, md, verdict)]
  /\ UNCHANGED <<config, limiter, workers, cache, disk, now, stack, ret, snap, called, ncalls>>

NextUnits ==
  \/ GoogleCall \/ NominatimCall \/ MLValidateCall \/ ScoreCall \/ ProviderBlockCall
  \/ GoogleConfidenceCall \/ NominatimConfidenceCall

SpecUnits == InitUnits /\ [][NextUnits]_vars

\* ------------------------------------- two threads on one SmartGeocoder
\* the rate-limited part of _geocode_google / _geocode_nominatim run by two
\* threads of one process on the same instance; the class takes no lock, so
\* the statements of the two calls interleave freely.  Every request
\* succeeds here.
Threads == {1, 2}
MaxThreadCalls == 2
Providers == {"google", "nominatim"}
DelayOf(provider) == IF provider = "google" THEN GOOGLE_DELAY ELSE NOMINATIM_DELAY
LastCallOf(provider) ==
  IF provider = "google" THEN last_google_call ELSE last_nominatim_call
IdleThread == [pc |-> "idle"]

InitRace ==
  /\ apiKey = TRUE
  /\ classifier = "none"
  /\ districtData = "loaded"
  /\ disk = MissingFile
  /\ cache = EmptyCache
  /\ now = 0
  /\ stack = <<>>
  /\ ret = NoRet
  /\ snap = NoSnap
  /\ called = {}
  /\ ncalls = 0
  /\ probe = NoProbe
  /\ InitLimiter
  /\ workers = [t \in Threads |-> IdleThread]

\* a thread enters an adapter
ThreadEnter(t) ==
  /\ workers[t].pc = "idle"
  /\ ncalls < MaxThreadCalls
  /\ \E provider \in Providers :
       workers' = [workers EXCEPT ![t] = [pc |-> "read", provider |-> provider]]
  /\ ncalls' = ncalls + 1
  /\ UNCHANGED <<config, limiter, probe, cache, disk, now, stack, ret, snap, called>>

\* elapsed = time.time() - self.last_*_call; if elapsed < delay: the thread
\* will sleep delay - elapsed
ThreadRead(t) ==
  /\ workers[t].pc = "read"
  /\ workers' = [workers EXCEPT ![t] =
       [pc |-> "sleep", provider |-> workers[t].provider,
        wake |-> clock + SleepFor(clock, LastCallOf(workers[t].provider),
                                  DelayOf(workers[t].provider))]]
  /\ UNCHANGED <<config, limiter, probe, cache, disk, now, stack, ret, snap, called,
                 ncalls>>

\* time.sleep is over (or was not called) and the request is issued
ThreadRequest(t) ==
  /\ workers[t].pc = "sleep"
  /\ clock >= workers[t].wake
  /\ requests' = [requests EXCEPT ![workers[t].provider] = <<Issue(@, clock)>>]
  /\ workers' = [workers EXCEPT ![t] =
       [pc |-> "update", provider |-> workers[t].provider]]
  /\ UNCHANGED <<config, clock, last_google_call, last_nominatim_call, probe, cache,
                 disk, now, stack, ret, snap, called, ncalls>>

\* self.last_*_call = time.time(), and the adapter returns
ThreadUpdate(t) ==
  /\ workers[t].pc = "update"
  /\ last_google_call' =
       IF workers[t].provider = "google" THEN clock ELSE last_google_call
  /\ last_nominatim_call' =
       IF workers[t].provider = "nominatim" THEN clock ELSE last_nominatim_call
  /\ workers' = [workers EXCEPT ![t] = IdleThread]
  /\ UNCHANGED <<config, clock, requests, probe, cache, disk, now, stack, ret, snap,
                 called, ncalls>>

\* the wall clock
ClockTick ==
  /\ \E d \in {1, NOMINATIM_DELAY} : clock + d <= MaxClock /\ clock' = clock + d
  /\ UNCHANGED <<config, workers, last_google_call, last_nominatim_call, requests,
                 probe, cache, disk, now, stack, ret, snap, called, ncalls>>

NextRace ==
  \/ \E t \in Threads :
       ThreadEnter(t) \/ ThreadRead(t) \/ ThreadRequest(t) \/ ThreadUpdate(t)
  \/ ClockTick

SpecRace == InitRace /\ [][NextRace]_vars

\* --------------------------------------------- the caller's hold on a result
\* _cache_result stores the caller's dict itself (self.cache[key] = result)
\* and _get_cached_result returns the stored dict (return result): what the
\* caller holds is a reference to the object in the store.  `ret` is that
\* reference, named by the key of the entry it points at.
NoRef == [kind |-> "none"]
RefTo(key) == [kind |-> "ref", key |-> key]

\* what a caller may assign to result['latitude'] afterwards
CallerLatitudes == {None, Some(0)}

InitAlias ==
  /\ apiKey = TRUE
  /\ classifier = "none"
  /\ districtData = "loaded"
  /\ disk = MissingFile
  /\ cache = LoadCache(disk)
  /\ now = 0
  /\ stack = <<>>
  /\ ret = NoRef
  /\ snap = NoPuts
  /\ called = {}
  /\ ncalls = 0
  /\ probe = NoProbe
  /\ InitLimiter
  /\ workers = NoWorkers

\* _cache_result(address, result) as geocode calls it before `return result`:
\* the caller's dict is stamped, stored and saved, and handed back
AliasPut ==
  /\ ncalls < MaxPuts
  /\ \E address \in CacheAddresses, result \in CacheResults :
       /\ cache' = CachePut(cache, address, Stamp(result, now))
       /\ disk' = SaveCache(disk, cache', "ok")
       /\ ret' = RefTo(GetCacheKey(address))
       /\ probe' = [fn |-> "_cache_result", address |-> address]
       /\ snap' = [snap EXCEPT !.log =
                     Append(@, [address |-> address, result |-> result, t |-> now])]
  /\ ncalls' = ncalls + 1
  /\ UNCHANGED <<config, limiter, workers, now, stack, called>>

\* _get_cached_result(address): the stored dict itself, or None
AliasGet ==
  /\ \E address \in CacheAddresses :
       /\ probe' = [fn |-> "_get_cached_result", address |-> address, t |-> now,
                    out |-> GetCachedResult(cache, address, now)]
       /\ ret' = IF GetCachedResult(cache, address, now) = Absent THEN NoRef
                 ELSE RefTo(GetCacheKey(address))
  /\ UNCHANGED <<config, limiter, workers, cache, disk, now, stack, snap, called, ncalls>>

\* the caller assigns to a field of the result it was handed; the object is
\* the one in the store
CallerMutates ==
  /\ ret.kind = "ref"
  /\ \E v \in CallerLatitudes :
       /\ v # cache[ret.key].latitude
       /\ cache' = [cache EXCEPT ![ret.key] = [@ EXCEPT !.latitude = v]]
  /\ probe' = [fn |-> "caller", key |-> ret.key]
  /\ UNCHANGED <<config, limiter, workers, disk, now, stack, ret, snap, called, ncalls>>

\* time passes
TickAlias ==
  /\ \E d \in CacheTickDays : now + d <= MaxCacheTime /\ now' = now + d
  /\ UNCHANGED <<config, limiter, workers, probe, cache, disk, stack, ret, snap, called,
                 ncalls>>

NextAlias == AliasPut \/ AliasGet \/ CallerMutates \/ TickAlias

SpecAlias == InitAlias /\ [][NextAlias]_vars

\* ------------------------------------------ two instances on one cache file
\* train_geocoding_model.py and collect_training_data.py each construct a
\* SmartGeocoder on data/cache: two processes, each with its own self.cache,
\* one geocoding_cache.json.  Every save succeeds here.
Instances == {1, 2}
MaxInstancePuts == 2
Unborn == [state |-> "unborn"]
Ready(c) == [state |-> "ready", cache |-> c]

InitShared ==
  /\ apiKey = TRUE
  /\ classifier = "none"
  /\ districtData = "loaded"
  /\ disk = MissingFile
  /\ cache = EmptyCache
  /\ now = 0
  /\ stack = <<>>
  /\ ret = NoRet
  /\ snap = NoPuts
  /\ called = {}
  /\ ncalls = 0
  /\ probe = NoProbe
  /\ InitLimiter
  /\ workers = [i \in Instances |-> Unborn]

\* SmartGeocoder(...): load_cache reads the file into this instance's store
InstanceInit(i) ==
  /\ workers[i] = Unborn
  /\ workers' = [workers EXCEPT ![i] = Ready(LoadCache(disk))]
  /\ probe' = [fn |-> "__init__", instance |-> i]
  /\ UNCHANGED <<config, limiter, cache, disk, now, stack, ret, snap, called, ncalls>>

\* _cache_result on instance i: the entry goes into its own store and
\* save_cache rewrites the file with that store
InstancePut(i) ==
  /\ workers[i].state = "ready"
  /\ ncalls < MaxInstancePuts
  /\ \E address \in CacheAddresses, result \in CacheResults :
       /\ workers' = [workers EXCEPT ![i] =
            Ready(CachePut(workers[i].cache, address, Stamp(result, now)))]
       /\ disk' = SaveCache(disk, workers'[i].cache, "ok")
       /\ probe' = [fn |-> "_cache_result", instance |-> i, address |-> address]
       /\ snap' = [snap EXCEPT !.log =
                     Append(@, [address |-> address, result |-> result, t |-> now,
                                instance |-> i])]
  /\ ncalls' = ncalls + 1
  /\ UNCHANGED <<config, limiter, cache, now, stack, ret, called>>

NextShared == \E i \in Instances : InstanceInit(i) \/ InstancePut(i)

SpecShared == InitShared /\ [][NextShared]_vars

\* ------------------------------------------------------------------ claims
InRegion(r) ==
  /\ r.latitude # None
  /\ r.longitude # None
  /\ INDIA_BOUNDS.min_lat <= Val(r.latitude)
  /\ Val(r.latitude) <= INDIA_BOUNDS.max_lat
  /\ INDIA_BOUNDS.min_lon <= Val(r.longitude)
  /\ Val(r.longitude) <= INDIA_BOUNDS.max_lon

KeyOf(address) == Lower(address)
Age(entry) == now - entry.timestamp

\* C1: every result returned with coordinates, and every entry of the cache
\* (in memory and in the file), lies inside the inclusive India bounds.
BoundsInvariant ==
  /\ \A k \in DOMAIN cache : InRegion(cache[k])
  /\ disk.state = "ok" => \A k \in DOMAIN disk.data : InRegion(disk.data[k])
  /\ (ret.kind = "value" /\ ret.value.latitude # None) => InRegion(ret.value)

\* C1 witness: with no ML model, Google's candidate was rejected (so by the
\* bounds check) and Nominatim's candidate on the very edge of the region
\* was accepted, returned and cached.
BoundsWitness ==
  /\ classifier = "none"
  /\ ret.kind = "value"
  /\ Len(ret.attempt) = 2
  /\ ret.attempt[1] = [provider |-> "google", outcome |-> "rejected"]
  /\ ret.attempt[2] = [provider |-> "nominatim", outcome |-> "accepted"]
  /\ ret.value.latitude = Some(INDIA_BOUNDS.max_lat)
  /\ KeyOf(ret.address) \in DOMAIN cache
  /\ cache[KeyOf(ret.address)] = ret.value

\* C2: a geocode call for an address with a live (younger than the TTL)
\* entry returns that entry at once: no collaborator is called, nothing
\* is written.
HasLiveEntry(address) ==
  /\ KeyOf(address) \in DOMAIN cache
  /\ Age(cache[KeyOf(address)]) < CACHE_TTL_DAYS
CacheHitShortCircuits ==
  [][(Running /\ Top.pc = "cache" /\ HasLiveEntry(Top.address)) =>
       /\ stack' = <<>>
       /\ ret'.kind = "value"
       /\ ret'.value = cache[KeyOf(Top.address)]
       /\ called' = called
       /\ (Len(stack) = 1 => called' = {})
       /\ cache' = cache
       /\ disk' = disk]_vars

\* C2 witness: the second call was served from the cache: nothing called.
CacheHitWitness ==
  /\ ncalls = 2
  /\ ret.kind = "value"
  /\ called = {}
  /\ ret.value.latitude # None
  /\ cache[KeyOf(ret.address)] = ret.value

\* C3: no cache entry, in memory or in the file, is a failure, and a call
\* that returns the terminal failure leaves both as they were when it began.
NoFailureIn(c) ==
  \A k \in DOMAIN c :
    c[k].latitude # None /\ c[k].longitude # None /\ "error" \notin DOMAIN c[k]
FailuresNeverCached ==
  /\ [](NoFailureIn(cache) /\ (disk.state = "ok" => NoFailureIn(disk.data)))
  /\ [][(Running /\ ~Running' /\ ret'.kind = "value" /\ ret'.value.latitude = None) =>
          (cache' = snap.cache /\ disk' = snap.disk)]_vars

\* C3 witness: a call returned the terminal failure while the cache held an
\* entry of an earlier call.
FailureWitness ==
  /\ ret.kind = "value"
  /\ ret.value.latitude = None
  /\ cache # EmptyCache

\* C4: with a key, an activation queries Nominatim only after Google gave
\* no accepted candidate, always does so then, and never after Google's
\* candidate was accepted.
GoogleThenNominatim(tried) ==
  \A j \in DOMAIN tried :
    tried[j].provider = "nominatim" =>
      /\ j = 2
      /\ tried[1].provider = "google"
      /\ tried[1].outcome # "accepted"
FallbackOrder ==
  /\ [](apiKey =>
          /\ \A i \in DOMAIN stack :
               /\ GoogleThenNominatim(stack[i].tried)
               /\ stack[i].pc = "retry" =>
                    /\ Len(stack[i].tried) = 2
                    /\ stack[i].tried[2].provider = "nominatim"
          /\ ret.kind = "value" =>
               /\ GoogleThenNominatim(ret.attempt)
               /\ \A j \in DOMAIN ret.attempt :
                    ret.attempt[j].outcome = "accepted" => j = Len(ret.attempt))
  /\ [][(apiKey /\ Running /\ Top.pc = "google") =>
          \/ /\ stack' = <<>>
             /\ ret'.attempt = <<[provider |-> "google", outcome |-> "accepted"]>>
          \/ /\ Len(stack') = Len(stack)
             /\ stack'[Len(stack)].pc = "nominatim"
             /\ stack'[Len(stack)].tried[1].provider = "google"]_vars

\* C4 witness: Google's candidate was rejected by the bounds check (there
\* is no ML model) and Nominatim was queried next.
FallbackWitness ==
  /\ apiKey
  /\ classifier = "none"
  /\ Running
  /\ Top.pc = "retry"
  /\ Top.tried[1] = [provider |-> "google", outcome |-> "rejected"]
  /\ Top.tried[2].provider = "nominatim"

\* C5: the first candidate that passes _validate_result (bounds, ML, floor)
\* is returned and cached: no activation goes on, to the next provider or
\* to the variations, after a candidate of its own passed the three checks.
ValidatedIsAccepted ==
  \A i \in DOMAIN stack :
    \A j \in DOMAIN stack[i].tried : stack[i].tried[j].outcome # "unscored"

\* C6: the terminal failure is returned only when every variation of the
\* outermost call was attempted.
AllVariationsAttempted ==
  (ret.kind = "value" /\ ret.value.latitude = None) => ret.tried = ret.nvars

\* C7: a top-level geocode call never ends in an exception.
NeverRaises == ret.kind # "raise"

\* C8: an activation left with no accepted candidate and either no retry
\* budget or an empty list of variations returns the terminal failure value:
\* null coordinates, confidence 0, source "none", score 0, an error tag.
IsTerminalFailure(v) ==
  /\ v.latitude = None
  /\ v.longitude = None
  /\ v.confidence = 0
  /\ v.source = "none"
  /\ v.validation_score = 0
  /\ "error" \in DOMAIN v
  /\ v.error # ""
TerminalFailureShape ==
  [][(/\ Running
      /\ \/ Top.pc = "retry" /\ Top.retry_count = 0
         \/ Top.pc = "loop" /\ Top.variations = <<>>) =>
       /\ stack' = <<>>
       /\ ret'.kind = "value"
       /\ IsTerminalFailure(ret'.value)]_vars

\* C8 witness: a call with retry budget but no variation to try returned
\* the terminal failure.
TerminalFailureWitness ==
  /\ ret.kind = "value"
  /\ IsTerminalFailure(ret.value)
  /\ ret.nvars = 0
  /\ ret.address = <<"Pune">>

\* C9: for a candidate inside the bounds that ML acceptance lets through,
\* _validate_result accepts exactly when the confidence reaches the floor:
\* 0.60 for source google, 0.70 for every other source.
FloorDecides ==
  (/\ probe.fn = "_validate_result"
   /\ InRegion(probe.candidate)
   /\ (classifier # "trained" \/ probe.verdict)) =>
    (probe.out = "True" <=>
       probe.candidate.confidence >=
         (IF probe.candidate.source = "google" THEN 60 ELSE 70))

\* C9 witness: a Google candidate of confidence exactly 0.60 was accepted
\* although the trained model was consulted.
FloorWitness ==
  /\ probe.fn = "_validate_result"
  /\ classifier = "trained"
  /\ probe.verdict
  /\ probe.candidate.source = "google"
  /\ probe.candidate.confidence = 60
  /\ InRegion(probe.candidate)
  /\ probe.out = "True"

\* C10 as stated: a cache read returns the stored result exactly when an
\* entry exists and its age does not exceed 30 days.
ReadReturns(address) ==
  /\ stack' = <<>>
  /\ ret'.kind = "value"
  /\ ret'.value = cache[KeyOf(address)]
CacheReadUpToTTL ==
  [][(Running /\ Top.pc = "cache") =>
       ((KeyOf(Top.address) \in DOMAIN cache
           /\ Age(cache[KeyOf(Top.address)]) <= 30)
        <=> ReadReturns(Top.address))]_vars

\* C10 amended: a cache read returns the stored result exactly when an entry
\* exists and its age is less than 30 days; an entry aged exactly 30 days is
\* treated as absent.
CacheReadBelowTTL ==
  [][(Running /\ Top.pc = "cache") =>
       ((KeyOf(Top.address) \in DOMAIN cache
           /\ Age(cache[KeyOf(Top.address)]) < 30)
        <=> ReadReturns(Top.address))]_vars

\* C10 witness: a call found an entry aged exactly 30 days and went on to
\* the providers.
CacheReadWitness ==
  /\ Len(stack) = 1
  /\ Top.pc \in {"google", "nominatim"}
  /\ KeyOf(Top.address) \in DOMAIN cache
  /\ Age(cache[KeyOf(Top.address)]) = 30

\* C11: a read of an address equal, up to letter case, to the address of the
\* latest put for that key, made less than 30 days after that put, returns
\* the result of that put stamped with its time, whatever the key held
\* before.
LastPut(log, address) ==
  LET idx == {i \in DOMAIN log : Lower(log[i].address) = Lower(address)}
  IN IF idx = {} THEN 0 ELSE CHOOSE i \in idx : \A j \in idx : j <= i
CacheRoundTrip ==
  (/\ probe.fn = "_get_cached_result"
   /\ LastPut(snap.log, probe.address) # 0
   /\ probe.t - snap.log[LastPut(snap.log, probe.address)].t < 30) =>
    LET p == snap.log[LastPut(snap.log, probe.address)] IN
    /\ probe.out # Absent
    /\ probe.out.latitude = p.result.latitude
    /\ probe.out.longitude = p.result.longitude
    /\ probe.out.timestamp = p.t
    /\ probe.out = [timestamp |-> p.t] @@ p.result

\* C11 witness: an entry was put, expired, and was replaced by a put of
\* another result; 29 days later a read under the other letter case
\* returned the second result.
CacheRoundTripWitness ==
  /\ probe.fn = "_get_cached_result"
  /\ Len(snap.log) = 2
  /\ Lower(snap.log[1].address) = Lower(snap.log[2].address)
  /\ snap.log[2].t - snap.log[1].t >= 30
  /\ snap.log[1].result # snap.log[2].result
  /\ probe.address # snap.log[2].address
  /\ Lower(probe.address) = Lower(snap.log[2].address)
  /\ probe.t = snap.log[2].t + 29
  /\ probe.out # Absent
  /\ probe.out.latitude = snap.log[2].result.latitude

\* C12: once _cache_result has returned, the file holds the store as it is
\* in memory, the new entry included.
PutIsDurable ==
  (probe.fn = "_cache_result" /\ probe.pc = "returned") =>
    /\ disk.state = "ok"
    /\ disk.data = cache
    /\ KeyOf(probe.address) \in DOMAIN disk.data

\* C13: a process that ends inside save_cache loses at most the entry being
\* put: the next process loads every entry the file held before that put.
CrashLosesOnlyInFlight ==
  (probe.fn = "load_cache" /\ probe.during = "put") =>
    \A k \in DOMAIN probe.before :
      k \in DOMAIN cache /\ cache[k] = probe.before[k]

\* C14: load_cache returns whatever the file is; from a file that is
\* missing, unreadable or corrupt it leaves the empty cache, and reads made
\* after it find nothing.
LoadDegradesToEmpty ==
  /\ probe.fn = "load_cache" =>
       /\ probe.out = "returned"
       /\ probe.file # "ok" => cache = EmptyCache
  /\ (snap.log = <<>> /\ disk.state # "ok") =>
       /\ cache = EmptyCache
       /\ probe.fn = "_get_cached_result" => probe.out = Absent

\* C14 witness: a process that had stored an entry ended; the next one found
\* a file json.load rejects, and a read of the stored address found nothing.
LoadWitness ==
  /\ ncalls > 0
  /\ snap.log = <<>>
  /\ disk.state = "corrupt"
  /\ cache = EmptyCache
  /\ probe.fn = "_get_cached_result"
  /\ probe.out = Absent

\* C15: while a process lives no key leaves the cache, and an entry changes
\* only when the running call puts a result for that key; a read that finds
\* an expired entry leaves it in place.
KeysNeverShrink ==
  [][\/ Restart
     \/ /\ DOMAIN cache \subseteq DOMAIN cache'
        /\ \A k \in DOMAIN cache :
             cache'[k] # cache[k] =>
               /\ Running
               /\ k = KeyOf(Top.address)
               /\ cache'[k].timestamp = now]_vars

\* C15 witness: a call for an address whose entry had expired 31 days after
\* it was written ended in the terminal failure, and the expired entry is
\* still in the store.
KeysWitness ==
  /\ ret.kind = "value"
  /\ ret.value.latitude = None
  /\ KeyOf(ret.address) \in DOMAIN cache
  /\ Age(cache[KeyOf(ret.address)]) = 31

\* C17: two consecutive requests to one provider are at least that
\* provider's delay apart, whatever became of the earlier one.
Spaced(r, delay) == r = <<>> \/ r[1].gap = <<>> \/ r[1].gap[1] >= delay
RequestsAreSpaced ==
  /\ Spaced(requests.google, GOOGLE_DELAY)
  /\ Spaced(requests.nominatim, NOMINATIM_DELAY)

\* C16: the five weights sum to 1.0 (100 hundredths), a candidate matching
\* all five terms scores exactly 1.0, and every score lies in [0, 1].
HasComponent(result, type, name) ==
  \E i \in DOMAIN Items(result) :
    /\ type \in Range(Items(result)[i].types)
    /\ LowerTok(Items(result)[i].long_name) = LowerTok(name)
MatchesAllFive(result, md) ==
  /\ {"district", "state", "pin"} \subseteq DOMAIN md.components
  /\ HasComponent(result, "administrative_area_level_2", md.components.district)
  /\ HasComponent(result, "administrative_area_level_1", md.components.state)
  /\ HasComponent(result, "postal_code", md.components.pin)
  /\ \E i \in DOMAIN result.formatted_address :
       LowerTok(result.formatted_address[i]) \in keywords
  /\ InRegion(result)
ScoreIsNormalised ==
  /\ weights.district_match = 30 /\ weights.state_match = 20
  /\ weights.pin_match = 15 /\ weights.education_keywords = 15
  /\ weights.bounds_check = 20
  /\ weights.district_match + weights.state_match + weights.pin_match
       + weights.education_keywords + weights.bounds_check = 100
  /\ (probe.fn = "_calculate_validation_score" /\ ~probe.raised) =>
       /\ 0 <= probe.out /\ probe.out <= 100
       /\ MatchesAllFive(probe.candidate, probe.metadata) => probe.out = 100

\* C16 witness: a Google candidate whose district, state and PIN match the
\* metadata, with an education keyword and inside the bounds, scored 1.0.
ScoreWitness ==
  /\ probe.fn = "_calculate_validation_score"
  /\ ~probe.raised
  /\ MatchesAllFive(probe.candidate, probe.metadata)
  /\ probe.out = 100

\* C18: validate answers (True, 0.5) whenever it cannot decide: no
\* classifier, a classifier left unfitted by a failed load, feature
\* extraction or prediction raising.
CannotDecide ==
  \/ classifier \in {"none", "unfitted"}
  \/ IterRaises(probe.candidate)
  \/ probe.prediction.kind = "raise"
MLIsPermissive ==
  probe.fn = "validate" =>
    /\ Len(probe.out) = 2
    /\ probe.out[1] \in BOOLEAN
    /\ CannotDecide => probe.out = <<TRUE, 50>>
    /\ ~CannotDecide => probe.out = <<probe.prediction.p >= 50, probe.prediction.p>>

\* C18 witness: the prediction of a trained classifier raised and the
\* candidate was accepted with confidence 0.5.
MLWitness ==
  /\ probe.fn = "validate"
  /\ classifier = "trained"
  /\ ~IterRaises(probe.candidate)
  /\ probe.prediction.kind = "raise"
  /\ probe.out = <<TRUE, 50>>

\* C19: an adapter returns: absent when the request raises, finds nothing
\* or gives a payload without the expected fields (and, for Google, when no
\* key is configured), a candidate otherwise.
AdaptersNeverRaise ==
  probe.fn \in {"_geocode_google", "_geocode_nominatim"} =>
    /\ probe.out.kind \in {"None", "dict"}
    /\ probe.resp.kind \in {"raise", "empty", "malformed"} => probe.out = Absent
    /\ (probe.fn = "_geocode_google" /\ ~apiKey) => probe.out = Absent
    /\ (probe.resp.kind = "ok" /\ (apiKey \/ probe.fn = "_geocode_nominatim")) =>
         probe.out.kind = "dict"

\* C19 witness: Nominatim's answer lacked the expected fields and the
\* adapter returned absent.
AdapterWitness ==
  /\ probe.fn = "_geocode_nominatim"
  /\ probe.resp.kind = "malformed"
  /\ probe.out = Absent

\* C20: the checks on a candidate run in the order bounds, ML acceptance,
\* floor, scoring, each only when the one before passed.
IsPrefixOf(s, t) == Len(s) <= Len(t) /\ s = SubSeq(t, 1, Len(s))
PassesML == classifier # "trained" \/ IterRaises(probe.candidate) \/ probe.verdict
PassesFloor ==
  probe.candidate.confidence >=
    (IF probe.candidate.source = "google" THEN 60 ELSE 70)
ChecksInOrder ==
  probe.fn = "provider_block" =>
    /\ IsPrefixOf(probe.checks, <<"bounds", "ml", "floor", "score">>)
    /\ Len(probe.checks) >= 1
    /\ Len(probe.checks) >= 2 <=> InRegion(probe.candidate)
    /\ Len(probe.checks) >= 3 <=> (InRegion(probe.candidate) /\ PassesML)
    /\ Len(probe.checks) = 4 <=>
         (InRegion(probe.candidate) /\ PassesML /\ PassesFloor)

\* C20 witness: with a trained classifier that would accept, a candidate
\* outside the bounds had the bounds check only.
ChecksWitness ==
  /\ probe.fn = "provider_block"
  /\ classifier = "trained"
  /\ probe.verdict
  /\ ~InRegion(probe.candidate)
  /\ probe.candidate.confidence >= 70
  /\ probe.checks = <<"bounds">>

\* C21: the score is the sum of the weights of exactly the matched terms:
\* district and state on case-insensitive equality with the metadata, PIN
\* on equality, keywords on presence, bounds on the coordinates; a term
\* whose metadata component is absent earns nothing.
TermMatched(result, md, k, type) ==
  /\ k \in DOMAIN md.components
  /\ \E i \in DOMAIN Items(result) :
       /\ type \in Range(Items(result)[i].types)
       /\ IF k = "pin" THEN Items(result)[i].long_name = md.components[k]
          ELSE LowerTok(Items(result)[i].long_name) = LowerTok(md.components[k])
KeywordPresent(result) ==
  \/ \E i \in DOMAIN result.formatted_address :
       LowerTok(result.formatted_address[i]) \in keywords
  \/ \E i \in DOMAIN Items(result) : LowerTok(Items(result)[i].long_name) \in keywords
ScoreIsSumOfMatched ==
  (probe.fn = "_calculate_validation_score" /\ ~probe.raised) =>
    probe.out =
      (IF TermMatched(probe.candidate, probe.metadata, "district",
                      "administrative_area_level_2") THEN 30 ELSE 0)
      + (IF TermMatched(probe.candidate, probe.metadata, "state",
                        "administrative_area_level_1") THEN 20 ELSE 0)
      + (IF TermMatched(probe.candidate, probe.metadata, "pin", "postal_code")
         THEN 15 ELSE 0)
      + (IF KeywordPresent(probe.candidate) THEN 15 ELSE 0)
      + (IF InRegion(probe.candidate) THEN 20 ELSE 0)

\* C21 witness: the candidate has a district, a state and a PIN, the metadata
\* has all three with other values, and the score is keywords plus bounds.
ScoreSumWitness ==
  /\ probe.fn = "_calculate_validation_score"
  /\ ~probe.raised
  /\ {"district", "state", "pin"} \subseteq DOMAIN probe.metadata.components
  /\ ExtractDistrict(probe.candidate) # None
  /\ ExtractState(probe.candidate) # None
  /\ ExtractPin(probe.candidate) # None
  /\ probe.out = 35

\* C22: a provider's confidence is min(1.0, base + boosts), within
\* [base, 1.0]: Google 0.7, +0.2 ROOFTOP or +0.1 RANGE_INTERPOLATED, +0.1 for
\* a component typed postal_code, +0.1 for one typed
\* administrative_area_level_2 whatever other types it carries; Nominatim
\* 0.6, +0.1 each for postcode, state, city or town, amenity.
HasTyped(raw, type) ==
  \E i \in DOMAIN raw.address_components :
    type \in Range(raw.address_components[i].types)
ConfidenceIsBasePlusBoosts ==
  /\ probe.fn = "_calculate_google_confidence" =>
       /\ 70 <= probe.out /\ probe.out <= 100
       /\ probe.out =
            Min(100,
                70 + (IF probe.raw.location_type = "ROOFTOP" THEN 20
                      ELSE IF probe.raw.location_type = "RANGE_INTERPOLATED" THEN 10
                      ELSE 0)
                   + (IF HasTyped(probe.raw, "postal_code") THEN 10 ELSE 0)
                   + (IF HasTyped(probe.raw, "administrative_area_level_2")
                      THEN 10 ELSE 0))
  /\ probe.fn = "_calculate_nominatim_confidence" =>
       /\ 60 <= probe.out /\ probe.out <= 100
       /\ probe.out =
            Min(100,
                60 + (IF "postcode" \in probe.raw.address THEN 10 ELSE 0)
                   + (IF "state" \in probe.raw.address THEN 10 ELSE 0)
                   + (IF {"city", "town"} \cap probe.raw.address # {} THEN 10 ELSE 0)
                   + (IF probe.raw.amenity THEN 10 ELSE 0))

\* C23: with two threads on one instance, no two requests to one provider
\* are issued less than the provider's delay apart.
ConcurrentRequestsAreSpaced ==
  \A provider \in Providers :
    \/ requests[provider] = <<>>
    \/ requests[provider][1].gap = <<>>
    \/ requests[provider][1].gap[1] >= DelayOf(provider)

\* C24: every geocode(address, n) call terminates: each recursive call has a
\* budget one less than its caller, no variation is requested or attempted
\* at budget 0, and the recursion is never deeper than n below the top call.
BudgetRespected ==
  /\ \A i \in 1..(Len(stack) - 1) :
       /\ stack[i + 1].retry_count = stack[i].retry_count - 1
       /\ stack[i].pc = "loop"
  /\ \A i \in 1..Len(stack) :
       /\ stack[i].retry_count >= 0
       /\ (stack[i].pc = "loop" \/ stack[i].variations # <<>>)
            => stack[i].retry_count > 0
  /\ Running => Len(stack) - 1 <= stack[1].retry_count
GeocodeTerminates == []BudgetRespected /\ (Running ~> ~Running)
BudgetExhaustedWitness ==
  /\ Len(stack) = 2
  /\ stack[1].retry_count = 1
  /\ Top.retry_count = 0
  /\ Top.pc = "retry"
  /\ GenerateAddressVariations(Top.processed, Top.metadata) # <<>>

\* C25: a result handed to a caller is a copy of the stored entry: after the
\* caller changes it, a read of that address still returns the result as it
\* was written.
ReadsReturnWhatWasWritten ==
  (/\ probe.fn = "_get_cached_result"
   /\ probe.out # Absent) =>
    /\ LastPut(snap.log, probe.address) # 0
    /\ probe.out = Stamp(snap.log[LastPut(snap.log, probe.address)].result,
                         snap.log[LastPut(snap.log, probe.address)].t)

\* C26: _validate_result returns True for every candidate inside the India
\* bounds with confidence 0.8 that the ML validator accepts, with or without
\* a 'source' field; it does not raise.
ValidatesWithoutSource ==
  (/\ probe.fn \in {"_validate_result", "test_validation"}
   /\ InRegion(probe.candidate)
   /\ probe.candidate.confidence = 80
   /\ (classifier # "trained" \/ probe.verdict)) =>
    probe.out = "True"

\* C27: when geocode(a) returns an accepted result, the cache holds a
\* non-expired entry under a's own key (so a repeated call is a cache hit),
\* also when the result was obtained through a variation of a.
AcceptedIsCachedUnderOwnKey ==
  [][(/\ ret' # ret
      /\ ret'.kind = "value"
      /\ ~IsTerminalFailure(ret'.value)) =>
       /\ KeyOf(ret'.address) \in DOMAIN cache'
       /\ now' - cache'[KeyOf(ret'.address)].timestamp < CACHE_TTL_DAYS
       /\ GetCachedResult(cache', ret'.address, now') = ret'.value]_vars

\* C28: with two instances on one cache file, once the puts have returned
\* the file holds an entry for every address either instance stored; a
\* rewrite by one instance never drops an entry written by the other.
SharedFileKeepsAllEntries ==
  \A n \in DOMAIN snap.log :
    KeyOf(snap.log[n].address) \in DOMAIN LoadCache(disk)

\* C29: every accepted result of geocode has validation score >= 0.20 (the
\* bounds term), so a validation score of 0.0 occurs exactly on the terminal
\* failure result; the same holds for every entry stored in the cache.
AcceptedScoreAtLeastBounds ==
  /\ ret.kind = "value" =>
       /\ (ret.value.validation_score = 0 <=> IsTerminalFailure(ret.value))
       /\ ~IsTerminalFailure(ret.value) => ret.value.validation_score >= 20
  /\ \A k \in DOMAIN cache : cache[k].validation_score >= 20
AcceptedScoreWitness ==
  /\ ret.kind = "value"
  /\ ret.attempt # <<>>
  /\ ~IsTerminalFailure(ret.value)
  /\ InRegion(ret.value)
  /\ ret.value.validation_score = 20

\* C30: every candidate of the Google adapter has confidence >= 0.7, so the
\* 0.6 floor never rejects it (only the bounds check or ML acceptance do); a
\* Nominatim candidate whose payload has none of postcode, state, city or
\* town, amenity has confidence 0.6 and never passes the 0.7 floor.
StoppedAtFloor(checks) == checks = <<"bounds", "ml", "floor">>
BarePayload(resp) ==
  /\ resp.address \cap {"postcode", "state", "city", "town"} = {}
  /\ ~resp.amenity
GoogleClearsFloor ==
  /\ (probe.fn = "_geocode_google" /\ probe.out # Absent) =>
       probe.out.confidence >= 70
  /\ (probe.fn = "_geocode_nominatim" /\ probe.out # Absent /\ BarePayload(probe.resp)) =>
       probe.out.confidence = 60
  /\ (probe.fn = "provider_block" /\ probe.candidate.source = "google") =>
       /\ probe.candidate.confidence >= 70
       /\ ~StoppedAtFloor(probe.checks)
       /\ (InRegion(probe.candidate) /\ (classifier # "trained" \/ probe.verdict))
            => probe.checks = <<"bounds", "ml", "floor", "score">>
  /\ (probe.fn = "provider_block" /\ probe.candidate.source = "nominatim"
        /\ probe.candidate.confidence = 60) =>
       /\ Len(probe.checks) < 4
       /\ (InRegion(probe.candidate) /\ (classifier # "trained" \/ probe.verdict))
            => StoppedAtFloor(probe.checks)
GoogleFloorWitness ==
  /\ probe.fn = "provider_block"
  /\ probe.candidate.source = "google"
  /\ probe.candidate.confidence = 70
  /\ probe.checks = <<"bounds", "ml", "floor", "score">>
====
